---- MODULE Spec2Model ----
(***************************************************************************)
(* A model of kronos_notifier.py: the Engine.IO packet decoder, the        *)
(* Socket.IO polling handshake, the payload interpreter and the            *)
(* acquisition orchestrator check_kronos_price with its markup cascade,    *)
(* and main, both of kronos_notifier.py and of .github/kronos_notifier.py, *)
(* with the latter's get_gold_predictions and its callback thread.         *)
(*                                                                         *)
(* Text is a sequence of one-character strings.  A JSON document inside a  *)
(* response body is one opaque character (a "blob"), interpreted by        *)
(* json_loads.  Prices are integers counting quarters of a price unit, so  *)
(* that 3.5 and 0.5 * diff are exact: 3.5 is 14 and 2650.00 is 10600.      *)
(***************************************************************************)
EXTENDS Integers, Sequences, FiniteSets, TLC

VARIABLES
    dec,    \* decode_engineio_payload: its argument, locals and return value
    hs,     \* fetch_update_all_via_socketio: the frame of the running call
    net,    \* every HTTP request issued so far, in order
    ck,     \* check_kronos_price: position, locals and return value
    mn,     \* main, of either script: position, locals, the sends it made
    gp,     \* get_gold_predictions: the waiting loop, the callback, their dict
    scope   \* which part of the program a behaviour explores; never changes

vars == <<dec, hs, net, ck, mn, gp, scope>>

Min(a, b) == IF a < b THEN a ELSE b
Abs(a) == IF a < 0 THEN 0 - a ELSE a

(***************************************************************************)
(* Python strings.                                                         *)
(***************************************************************************)
Digits == {"0", "1", "2", "3", "4", "5", "6", "7", "8", "9"}

\* A character such as U+00B2 for which str.isdigit() is true while int()
\* rejects it.
SuperDigit == "sup2"

isdigit(c) == c \in Digits \cup {SuperDigit}

\* s[a:b] with 0 <= a, Python's clamping at the end of the string.
Slice(s, a, b) == SubSeq(s, a + 1, Min(b, Len(s)))

\* tok in text
Contains(text, tok) == \E k \in 1..Len(text) : text[k] = tok

startswith(s, prefix) ==
    /\ Len(s) >= Len(prefix)
    /\ SubSeq(s, 1, Len(prefix)) = prefix

DigitVal(c) ==
    CASE c = "0" -> 0 [] c = "1" -> 1 [] c = "2" -> 2 [] c = "3" -> 3
      [] c = "4" -> 4 [] c = "5" -> 5 [] c = "6" -> 6 [] c = "7" -> 7
      [] c = "8" -> 8 [] c = "9" -> 9

\* int(s) raises ValueError unless every character is a decimal digit.
IntRaises(s) == Len(s) = 0 \/ \E k \in 1..Len(s) : s[k] \notin Digits

RECURSIVE IntValue(_)
IntValue(s) ==
    IF Len(s) = 0 THEN 0
    ELSE 10 * IntValue(SubSeq(s, 1, Len(s) - 1)) + DigitVal(s[Len(s)])

(***************************************************************************)
(* decode_engineio_payload                                                 *)
(***************************************************************************)
\* The inner while loop: the first position >= j holding no digit.
RECURSIVE ScanDigits(_, _)
ScanDigits(payload, j) ==
    IF j < Len(payload) /\ isdigit(payload[j + 1])
    THEN ScanDigits(payload, j + 1)
    ELSE j

\* A variant that reads one character too few of each packet.
DecodeStepShort(payload, i, packets) ==
    IF ~(i < Len(payload))
    THEN [i |-> i, packets |-> packets, pc |-> "done"]
    ELSE LET j == ScanDigits(payload, i) IN
         IF isdigit(payload[i + 1]) /\ j < Len(payload) /\ payload[j + 1] = ":"
         THEN IF IntRaises(Slice(payload, i, j))
              THEN [i |-> i, packets |-> packets, pc |-> "raised"]
              ELSE LET length == IntValue(Slice(payload, i, j)) IN
                   [i |-> j + 1 + length,
                    packets |-> Append(packets,
                                       Slice(payload, j + 1, j + length)),
                    pc |-> "loop"]
         ELSE [i |-> i,
               packets |-> Append(packets, Slice(payload, i, Len(payload))),
               pc |-> "done"]

\* A variant that moves the read position by the declared length only.
DecodeStepNoProgress(payload, i, packets) ==
    IF ~(i < Len(payload))
    THEN [i |-> i, packets |-> packets, pc |-> "done"]
    ELSE LET j == ScanDigits(payload, i) IN
         IF isdigit(payload[i + 1]) /\ j < Len(payload) /\ payload[j + 1] = ":"
         THEN IF IntRaises(Slice(payload, i, j))
              THEN [i |-> i, packets |-> packets, pc |-> "raised"]
              ELSE LET length == IntValue(Slice(payload, i, j)) IN
                   [i |-> i + length,
                    packets |-> Append(packets,
                                       Slice(payload, j + 1, j + 1 + length)),
                    pc |-> "loop"]
         ELSE [i |-> i,
               packets |-> Append(packets, Slice(payload, i, Len(payload))),
               pc |-> "done"]

\* One evaluation of the outer loop test and body, from read position i.
DecodeStep(payload, i, packets) ==
    IF ~(i < Len(payload))
    THEN [i |-> i, packets |-> packets, pc |-> "done"]
    ELSE LET j == ScanDigits(payload, i) IN
         IF isdigit(payload[i + 1]) /\ j < Len(payload) /\ payload[j + 1] = ":"
         THEN IF IntRaises(Slice(payload, i, j))
              THEN [i |-> i, packets |-> packets, pc |-> "raised"]
              ELSE LET length == IntValue(Slice(payload, i, j)) IN
                   [i |-> j + 1 + length,
                    packets |-> Append(packets,
                                       Slice(payload, j + 1, j + 1 + length)),
                    pc |-> "loop"]
         ELSE [i |-> i,
               packets |-> Append(packets, Slice(payload, i, Len(payload))),
               pc |-> "done"]

RECURSIVE DecodeFrom(_, _, _)
DecodeFrom(payload, i, packets) ==
    LET s == DecodeStep(payload, i, packets) IN
    IF s.pc = "loop" THEN DecodeFrom(payload, s.i, s.packets)
    ELSE [packets |-> s.packets, raised |-> s.pc = "raised"]

\* The whole function: the packets, or raised = TRUE for a ValueError.
decode_engineio_payload(payload) == DecodeFrom(payload, 0, <<>>)

(***************************************************************************)
(* Inputs of the decoder.                                                  *)
(***************************************************************************)
MaxTextLen == 2
MaxTexts == 2
MaxRawLen == 3

TextChars == {"1", ":", "a"}
RawChars == {"1", "2", ":", "a", SuperDigit}

RECURSIVE StringsUpTo(_, _)
StringsUpTo(chars, n) ==
    IF n = 0 THEN {<<>>}
    ELSE LET shorter == StringsUpTo(chars, n - 1) IN
         shorter \cup {Append(s, c) : s \in shorter, c \in chars}

Repeat(c, n) == [k \in 1..n |-> c]

\* Short texts over TextChars, and two texts whose length has two digits.
Texts == StringsUpTo(TextChars, MaxTextLen) \cup {Repeat("a", 10), Repeat("1", 12)}

RECURSIVE ListsUpTo(_, _)
ListsUpTo(S, n) ==
    IF n = 0 THEN {<<>>}
    ELSE LET shorter == ListsUpTo(S, n - 1) IN
         shorter \cup {Append(l, x) : l \in shorter, x \in S}

DigitChar(d) ==
    CASE d = 0 -> "0" [] d = 1 -> "1" [] d = 2 -> "2" [] d = 3 -> "3"
      [] d = 4 -> "4" [] d = 5 -> "5" [] d = 6 -> "6" [] d = 7 -> "7"
      [] d = 8 -> "8" [] d = 9 -> "9"

\* The decimal numeral of n >= 0.
RECURSIVE Decimal(_)
Decimal(n) ==
    IF n < 10 THEN <<DigitChar(n)>>
    ELSE Append(Decimal(n \div 10), DigitChar(n % 10))

\* The concatenation of "<len(text)>:<text>" over a list of texts.
RECURSIVE Encode(_)
Encode(texts) ==
    IF Len(texts) = 0 THEN <<>>
    ELSE Decimal(Len(Head(texts))) \o <<":">> \o Head(texts) \o Encode(Tail(texts))

(***************************************************************************)
(* JSON documents.  A document travels as one opaque character; json_loads *)
(* gives its type, and the accessors below give what the code reads of it. *)
(***************************************************************************)
NONE == "<None>"

JSid1 == "{sid:s1}"
JSid2 == "{sid:s2}"
JSidEmpty == "{sid:''}"
JNoSid == "{}"
JArray == "[1]"
JUpdate1 == "[update_all,#1]"
JUpdate2 == "[update_all,#2]"
JOther == "[tick,#3]"
JOnlyName == "[update_all]"
JMalformed == "{oops"

JsonDicts == {JSid1, JSid2, JSidEmpty, JNoSid}
JsonPairs == {JUpdate1, JUpdate2, JOther}
JsonLists == JsonPairs \cup {JArray, JOnlyName}

\* json.loads(s): err = TRUE when it raises.
json_loads(s) ==
    IF Len(s) = 1 /\ s[1] \in JsonDicts THEN [err |-> FALSE, t |-> "dict", blob |-> s[1]]
    ELSE IF Len(s) = 1 /\ s[1] \in JsonLists THEN [err |-> FALSE, t |-> "list", blob |-> s[1]]
    ELSE IF ~IntRaises(s) /\ (Len(s) = 1 \/ s[1] # "0") THEN [err |-> FALSE, t |-> "int", blob |-> NONE]
    ELSE [err |-> TRUE, t |-> NONE, blob |-> NONE]

\* data.get("sid") of a decoded dict.
SidOf(blob) ==
    CASE blob = JSid1 -> "s1"
      [] blob = JSid2 -> "s2"
      [] blob = JSidEmpty -> ""
      [] OTHER -> NONE

\* The event name of a two-element array.
EventOf(blob) == IF blob \in {JUpdate1, JUpdate2} THEN "update_all" ELSE "tick"

\* Python truthiness of a session id.
SidTruthy(sid) == sid \notin {NONE, ""}

(***************************************************************************)
(* fetch_update_all_via_socketio                                           *)
(***************************************************************************)
max_polls == 5

MaxPollPackets == 2

\* What a request can come back with: an exception of requests, a status
\* outside 2xx, or a body.
Responses(bodies) ==
    {[net |-> "error", text |-> <<>>], [net |-> "status", text |-> <<>>]}
        \cup {[net |-> "ok", text |-> b] : b \in bodies}

OpenPackets ==
    {<<"0", JSid1>>, <<"0", JSid2>>, <<"0", JSidEmpty>>, <<"0", JNoSid>>,
     <<"0", JArray>>, <<"0", JMalformed>>, <<"0", "7">>, <<"4", "0">>}

\* Open bodies: one bare packet (as Engine.IO 4 sends it), one framed packet,
\* a framed pair, an empty body and a body whose length prefix int() rejects.
OpenBodies ==
    OpenPackets
        \cup {Encode(<<p>>) : p \in OpenPackets}
        \cup {Encode(<<<<"4", "0">>, <<"0", JSid2>>>>),
              Encode(<<<<"0", JNoSid>>, <<"0", JSid1>>>>),
              <<>>, <<SuperDigit, ":", "0", JSid1>>}

PollPackets ==
    {<<"4", "2", JUpdate1>>, <<"4", "2", JUpdate2>>, <<"4", "2", JOther>>,
     <<"4", "2", JOnlyName>>, <<"4", "2", JMalformed>>, <<"2">>}

PollBodies ==
    PollPackets
        \cup {Encode(l) : l \in ListsUpTo(PollPackets, MaxPollPackets)}
        \cup {<<SuperDigit, ":", "4", "2", JUpdate1>>}

\* The frame: where the call is, its locals, its return value, and seen, a
\* record of what the server did during the call (not a program variable).
HsIdle ==
    [pc |-> "idle", open_text |-> <<>>, sid |-> NONE, polls |-> 0, poll_text |-> <<>>,
     ret |-> NONE, seen |-> {}]

HsCall == [HsIdle EXCEPT !.pc = "open"]

\* return None (lines 174 and 202) and the except clause of lines 200-201.
HsReturnNone(h) == [h EXCEPT !.pc = "ret", !.ret = NONE]

\* The index of the first packet with the given prefix, 0 if there is none.
RECURSIVE FirstWithPrefix(_, _, _)
FirstWithPrefix(packets, prefix, k) ==
    IF k > Len(packets) THEN 0
    ELSE IF startswith(packets[k], prefix) THEN k
    ELSE FirstWithPrefix(packets, prefix, k + 1)

\* Lines 162-174: what the Open response does to the frame.
OpenResult(h, r) ==
    LET g == [h EXCEPT !.open_text = r.text] IN
    IF r.net = "error" THEN HsReturnNone(g)
    ELSE IF r.net = "status" THEN HsReturnNone(g)
    ELSE LET d == decode_engineio_payload(r.text) IN
         IF d.raised THEN HsReturnNone(g)
         ELSE LET k == FirstWithPrefix(d.packets, <<"0">>, 1) IN
              IF k = 0 THEN HsReturnNone(g)
              ELSE LET v == json_loads(Tail(d.packets[k]))
                       data == IF v.err THEN [err |-> FALSE, t |-> "dict", blob |-> JNoSid] ELSE v
                   IN IF data.t # "dict" THEN HsReturnNone(g)
                      ELSE IF ~SidTruthy(SidOf(data.blob)) THEN HsReturnNone(g)
                      ELSE [g EXCEPT !.pc = "confirm", !.sid = SidOf(data.blob)]

\* Lines 176-181: the Confirm response; its status is not looked at.
ConfirmResult(h, r) ==
    IF r.net = "error" THEN HsReturnNone(h)
    ELSE [h EXCEPT !.pc = "poll"]

\* Lines 191-196 for one packet: "skip" (continue), or the decoded pair.
PacketEvent(packet) ==
    IF ~startswith(packet, <<"4", "2">>) THEN [skip |-> TRUE, blob |-> NONE]
    ELSE LET v == json_loads(SubSeq(packet, 3, Len(packet))) IN
         IF v.err \/ v.blob \notin JsonPairs THEN [skip |-> TRUE, blob |-> NONE]
         ELSE [skip |-> FALSE, blob |-> v.blob]

\* A scan that keeps going and returns the last update_all of the response.
RECURSIVE ScanPacketsLast(_, _)
ScanPacketsLast(packets, k) ==
    IF k > Len(packets) THEN [found |-> 0, blob |-> NONE]
    ELSE LET e == PacketEvent(packets[k])
             later == ScanPacketsLast(packets, k + 1)
         IN IF later.found # 0 THEN later
            ELSE IF ~e.skip /\ EventOf(e.blob) = "update_all"
            THEN [found |-> k, blob |-> e.blob]
            ELSE later

\* Lines 190-198: the scan of one poll's packets from index k on.  found is
\* the index of the packet whose payload is returned, 0 if none is.
RECURSIVE ScanPackets(_, _)
ScanPackets(packets, k) ==
    IF k > Len(packets) THEN [found |-> 0, blob |-> NONE]
    ELSE LET e == PacketEvent(packets[k]) IN
         IF ~e.skip /\ EventOf(e.blob) = "update_all"
         THEN [found |-> k, blob |-> e.blob]
         ELSE ScanPackets(packets, k + 1)

\* A poll that does not call raise_for_status.
PollResultNoStatusCheck(h, r) ==
    LET g == [h EXCEPT !.poll_text = r.text] IN
    IF r.net = "error" THEN HsReturnNone(g)
    ELSE LET d == decode_engineio_payload(r.text) IN
         IF d.raised THEN HsReturnNone(g)
         ELSE LET s == ScanPackets(d.packets, 1) IN
              IF s.found # 0
              THEN [g EXCEPT !.pc = "ret", !.ret = s.blob]
              ELSE [g EXCEPT !.polls = h.polls + 1]

\* A poll loop that goes on to the next poll when a poll fails.
PollResultRetriesOnError(h, r) ==
    LET g == [h EXCEPT !.poll_text = r.text] IN
    IF r.net = "error" THEN [g EXCEPT !.polls = h.polls + 1]
    ELSE IF r.net = "status" THEN [g EXCEPT !.polls = h.polls + 1]
    ELSE LET d == decode_engineio_payload(r.text) IN
         IF d.raised THEN HsReturnNone(g)
         ELSE LET s == ScanPackets(d.packets, 1) IN
              IF s.found # 0
              THEN [g EXCEPT !.pc = "ret", !.ret = s.blob]
              ELSE [g EXCEPT !.polls = h.polls + 1]

\* Lines 184-199: what one Poll response does to the frame.
PollResult(h, r) ==
    LET g == [h EXCEPT !.poll_text = r.text] IN
    IF r.net = "error" THEN HsReturnNone(g)
    ELSE IF r.net = "status" THEN HsReturnNone(g)
    ELSE LET d == decode_engineio_payload(r.text) IN
         IF d.raised THEN HsReturnNone(g)
         ELSE LET s == ScanPackets(d.packets, 1) IN
              IF s.found # 0
              THEN [g EXCEPT !.pc = "ret", !.ret = s.blob]
              ELSE [g EXCEPT !.polls = h.polls + 1]

\* A loop that runs once more.
PollsLeftOneMore(h) == h.polls <= max_polls

\* The test of "for _ in range(max_polls)".
PollsLeft(h) == h.polls < max_polls

\* What the server did, as the claims about the handshake name it.
Observed(request, r) ==
    IF r.net # "ok" THEN {<<request, r.net>>}
    ELSE (IF Contains(r.text, JMalformed) THEN {<<request, "malformed_json">>} ELSE {})
         \cup (IF request = "open" /\ ~Contains(r.text, JSid1) /\ ~Contains(r.text, JSid2)
               THEN {<<"open", "no_sid">>} ELSE {})

See(h, what) == [h EXCEPT !.seen = h.seen \cup what]

(***************************************************************************)
(* The update_all payload.  A scalar is None, a number or a non-numeric    *)
(* string; a container that should be a dict may also be null ("none"),    *)
(* absent or of another type ("list": truthy, without .get).               *)
(***************************************************************************)
VNone == [t |-> "none", n |-> 0]
VStr == [t |-> "str", n |-> 0]
Num(x) == [t |-> "num", n |-> x]

\* Python truthiness of a scalar.
Truthy(v) == (v.t = "num" /\ v.n # 0) \/ v.t = "str"

\* a or b
Or(a, b) == IF Truthy(a) THEN a ELSE b

\* 3.5, in quarters.
Threshold == 14

TFKeys == {"AA", "D1", "H1", "ZZ"}

\* TFKeys in the order of Python's string comparison.
KeyOrder == <<"AA", "D1", "H1", "ZZ">>

PreferenceOrder == <<"H1", "M30", "M15", "M5", "M1", "H4", "D1", "W1", "MN">>

Rec(base, prediction, kronos_pred) ==
    [t |-> "dict", base_price |-> base, prediction |-> prediction, kronos_pred |-> kronos_pred]
RecOfType(t) == [t |-> t, base_price |-> VNone, prediction |-> VNone, kronos_pred |-> VNone]
RecMissing == RecOfType("missing")

Cond(t, fa, plain) == [t |-> t, condition_fa |-> fa, condition |-> plain]
CondMissing == Cond("missing", NONE, NONE)

NoRecs == [k \in TFKeys |-> RecMissing]
NoConds == [k \in TFKeys |-> CondMissing]

ResultsAbsent == [t |-> "absent", recs |-> NoRecs]
McAbsent == [t |-> "absent", conds |-> NoConds]

Payload(t, results, mc, flag) ==
    [t |-> t, results |-> results, market_conditions |-> mc, should_notify |-> flag]
PNone == Payload("none", ResultsAbsent, McAbsent, FALSE)

\* if socket_data:
PayloadTruthy(data) == data.t \in {"list", "dict"}

Keys(results) == {k \in TFKeys : results.recs[k].t # "missing"}

\* The first element of a sequence of keys that is a key of results, NONE if
\* there is none.
RECURSIVE FirstPresent(_, _, _)
FirstPresent(order, results, k) ==
    IF k > Len(order) THEN NONE
    ELSE IF order[k] \in Keys(results) THEN order[k]
    ELSE FirstPresent(order, results, k + 1)

\* A variant that skips the preferred key.
select_timeframe_no_preferred(results, preferred) ==
    IF FirstPresent(PreferenceOrder, results, 1) # NONE
    THEN FirstPresent(PreferenceOrder, results, 1)
    ELSE FirstPresent(KeyOrder, results, 1)

\* select_timeframe on a dict; preferred is NONE, "" or a key.
select_timeframe(results, preferred) ==
    IF preferred \notin {NONE, ""} /\ preferred \in Keys(results) THEN preferred
    ELSE IF FirstPresent(PreferenceOrder, results, 1) # NONE
    THEN FirstPresent(PreferenceOrder, results, 1)
    ELSE FirstPresent(KeyOrder, results, 1)

\* A variant that puts the stop-loss below the base price whatever the side.
compute_tp_sl_below(base, pred) ==
    IF ~Truthy(base) \/ ~Truthy(pred)
    THEN [raised |-> FALSE, target |-> Or(pred, base), sl |-> base]
    ELSE IF base.t # "num" \/ pred.t # "num"
    THEN [raised |-> TRUE, target |-> VNone, sl |-> VNone]
    ELSE LET diff == Abs(pred.n - base.n) IN
         [raised |-> FALSE, target |-> pred, sl |-> Num(base.n - diff \div 2)]

\* compute_tp_sl; raised stands for the TypeError of pred - base.
compute_tp_sl(base, pred) ==
    IF ~Truthy(base) \/ ~Truthy(pred)
    THEN [raised |-> FALSE, target |-> Or(pred, base), sl |-> base]
    ELSE IF base.t # "num" \/ pred.t # "num"
    THEN [raised |-> TRUE, target |-> VNone, sl |-> VNone]
    ELSE LET diff == Abs(pred.n - base.n) IN
         [raised |-> FALSE, target |-> pred,
          sl |-> IF pred.n > base.n THEN Num(base.n - diff \div 2)
                 ELSE Num(base.n + diff \div 2)]

Parsed(t, exc, base, kronos, target, sl, state, tf) ==
    [t |-> t, exc |-> exc, base_price |-> base, kronos_price |-> kronos,
     target_price |-> target, sl_price |-> sl, state |-> state, timeframe |-> tf]
ParsedNone == Parsed("none", NONE, VNone, VNone, VNone, VNone, NONE, NONE)
ParsedRaised(exc) == Parsed("raised", exc, VNone, VNone, VNone, VNone, NONE, NONE)

\* a or b on strings, None and "" being falsy.
OrStr(a, b) == IF a \notin {NONE, ""} THEN a ELSE b

\* A variant whose kronos_price takes the prediction field first.
parse_socketio_payload_prediction_first(data, preferred_tf) ==
    IF data.t # "dict" THEN ParsedRaised("AttributeError")
    ELSE IF data.results.t = "absent" \/ (data.results.t = "dict" /\ Keys(data.results) = {})
    THEN ParsedNone
    ELSE IF data.results.t # "dict" THEN ParsedRaised("AttributeError")
    ELSE LET tf == select_timeframe(data.results, preferred_tf)
             rec == data.results.recs[tf]
         IN
         IF rec.t = "list" THEN ParsedRaised("AttributeError")
         ELSE LET res == IF rec.t = "dict" THEN rec ELSE RecOfType("dict")
                  base_price == res.base_price
                  pred_price == Or(res.prediction, Or(res.kronos_pred, base_price))
                  kronos_price == Or(res.prediction, Or(res.kronos_pred, base_price))
                  tp_sl == compute_tp_sl(base_price, pred_price)
                  mc == data.market_conditions
                  cond == IF mc.t = "dict" /\ mc.conds[tf].t # "missing"
                          THEN mc.conds[tf] ELSE Cond("dict", NONE, NONE)
              IN
              IF tp_sl.raised THEN ParsedRaised("TypeError")
              ELSE IF mc.t = "list" \/ cond.t # "dict" THEN ParsedRaised("AttributeError")
              ELSE Parsed("dict", NONE, base_price, kronos_price, tp_sl.target, tp_sl.sl,
                          OrStr(cond.condition_fa, cond.condition), tf)

\* A variant whose kronos_price does not fall back to the base price.
parse_socketio_payload_no_base(data, preferred_tf) ==
    IF data.t # "dict" THEN ParsedRaised("AttributeError")
    ELSE IF data.results.t = "absent" \/ (data.results.t = "dict" /\ Keys(data.results) = {})
    THEN ParsedNone
    ELSE IF data.results.t # "dict" THEN ParsedRaised("AttributeError")
    ELSE LET tf == select_timeframe(data.results, preferred_tf)
             rec == data.results.recs[tf]
         IN
         IF rec.t = "list" THEN ParsedRaised("AttributeError")
         ELSE LET res == IF rec.t = "dict" THEN rec ELSE RecOfType("dict")
                  base_price == res.base_price
                  pred_price == Or(res.prediction, Or(res.kronos_pred, base_price))
                  kronos_price == Or(res.kronos_pred, res.prediction)
                  tp_sl == compute_tp_sl(base_price, pred_price)
                  mc == data.market_conditions
                  cond == IF mc.t = "dict" /\ mc.conds[tf].t # "missing"
                          THEN mc.conds[tf] ELSE Cond("dict", NONE, NONE)
              IN
              IF tp_sl.raised THEN ParsedRaised("TypeError")
              ELSE IF mc.t = "list" \/ cond.t # "dict" THEN ParsedRaised("AttributeError")
              ELSE Parsed("dict", NONE, base_price, kronos_price, tp_sl.target, tp_sl.sl,
                          OrStr(cond.condition_fa, cond.condition), tf)

\* parse_socketio_payload on a truthy payload.
parse_socketio_payload(data, preferred_tf) ==
    IF data.t # "dict" THEN ParsedRaised("AttributeError")
    ELSE IF data.results.t = "absent" \/ (data.results.t = "dict" /\ Keys(data.results) = {})
    THEN ParsedNone
    ELSE IF data.results.t # "dict" THEN ParsedRaised("AttributeError")
    ELSE LET tf == select_timeframe(data.results, preferred_tf)
             rec == data.results.recs[tf]
         IN
         IF rec.t = "list" THEN ParsedRaised("AttributeError")
         ELSE LET res == IF rec.t = "dict" THEN rec ELSE RecOfType("dict")
                  base_price == res.base_price
                  pred_price == Or(res.prediction, Or(res.kronos_pred, base_price))
                  kronos_price == Or(res.kronos_pred, Or(res.prediction, base_price))
                  tp_sl == compute_tp_sl(base_price, pred_price)
                  mc == data.market_conditions
                  cond == IF mc.t = "dict" /\ mc.conds[tf].t # "missing"
                          THEN mc.conds[tf] ELSE Cond("dict", NONE, NONE)
              IN
              IF tp_sl.raised THEN ParsedRaised("TypeError")
              ELSE IF mc.t = "list" \/ cond.t # "dict" THEN ParsedRaised("AttributeError")
              ELSE Parsed("dict", NONE, base_price, kronos_price, tp_sl.target, tp_sl.sl,
                          OrStr(cond.condition_fa, cond.condition), tf)

(***************************************************************************)
(* The page.  Its text is made of tokens: the labels, numerals, "$" and    *)
(* words.  An element has a tag, a class and children; a child is a text   *)
(* node directly in the element (wrap = "") or inside an inline element    *)
(* of its own (wrap = that element's tag).                                 *)
(***************************************************************************)
NumValue ==
    [tok \in {"2650", "2651.5", "2660", "2653.5", "2654", "2645", "-5", "0", "12", "9999"} |->
        CASE tok = "2650" -> 10600 [] tok = "2651.5" -> 10606 [] tok = "2660" -> 10640
          [] tok = "2653.5" -> 10614 [] tok = "2654" -> 10616 [] tok = "2645" -> 10580
          [] tok = "-5" -> 0 - 20 [] tok = "0" -> 0 [] tok = "12" -> 48
          [] tok = "9999" -> 39996]

IsNumeral(tok) == tok \in DOMAIN NumValue

\* Tokens that [0-9,.]+ matches from their first character on: the unsigned
\* numerals and a lone separator.
MatchesDigitsClass(tok) == (IsNumeral(tok) /\ NumValue[tok] >= 0) \/ tok = ","

\* 1000, in quarters.
PlausibilityFloor == 4000

Kid(wrap, text) == [wrap |-> wrap, text |-> text]
Elem(tag, cls, kids) == [tag |-> tag, cls |-> cls, kids |-> kids]

RECURSIVE Concat(_)
Concat(seqs) == IF Len(seqs) = 0 THEN <<>> ELSE Head(seqs) \o Concat(Tail(seqs))

\* elem.get_text()
ElemText(e) == Concat([k \in 1..Len(e.kids) |-> e.kids[k].text])

\* soup.get_text()
PageText(soup) == Concat([k \in 1..Len(soup) |-> ElemText(soup[k])])

\* Lines 332-333: script and style elements are removed from the tree.
Decompose(soup) == SelectSeq(soup, LAMBDA e : e.tag \notin {"script", "style"})

\* The text nodes of an element, each with the text of its parent.
ElemNodes(e) ==
    [k \in 1..Len(e.kids) |->
        [text |-> e.kids[k].text,
         parent_text |-> IF e.kids[k].wrap = "" THEN ElemText(e) ELSE e.kids[k].text]]

\* The text nodes of the page, in document order.
TextNodes(soup) == Concat([k \in 1..Len(soup) |-> ElemNodes(soup[k])])

FirstIndexOf(text, tok) == CHOOSE k \in 1..Len(text) : text[k] = tok /\ \A j \in 1..(k - 1) : text[j] # tok

\* text.split(label, 1)[1] if label in text else text
AfterLabel(text, label) ==
    IF Contains(text, label) THEN SubSeq(text, FirstIndexOf(text, label) + 1, Len(text)) ELSE text

\* extract_number: the first numeral of the text, or None.
extract_number(text) ==
    IF \E k \in 1..Len(text) : IsNumeral(text[k])
    THEN Num(NumValue[text[CHOOSE k \in 1..Len(text) :
                            IsNumeral(text[k]) /\ \A j \in 1..(k - 1) : ~IsNumeral(text[j])]])
    ELSE VNone

\* get_value_after_label once the text it reads is known.
ValueAfterLabel(text, label) ==
    IF Len(text) = 0 THEN VNone ELSE extract_number(AfterLabel(text, label))

\* soup.find_all(string=re.compile(label)), script and style already gone.
LabelNodes(soup, label) == SelectSeq(TextNodes(soup), LAMBDA n : Contains(n.text, label))

\* get_value_after_label(elem, label) for each text node holding the label.
NodeValues(soup, label) ==
    [k \in 1..Len(LabelNodes(soup, label)) |->
        ValueAfterLabel(LabelNodes(soup, label)[k].parent_text, label)]

IsNoneOrZero(v) == v.t = "none" \/ (v.t = "num" /\ v.n = 0)

\* The first number of a sequence that is above the floor, or None: the
\* loops that return the first value passing  "val is not None and val > 0"
\* (floor 0) or  "val and val > 1000"  (the plausibility floor).
RECURSIVE FirstAccepted(_, _, _)
FirstAccepted(values, floor, k) ==
    IF k > Len(values) THEN VNone
    ELSE IF values[k].t = "num" /\ values[k].n > floor THEN values[k]
    ELSE FirstAccepted(values, floor, k + 1)

\* re.findall of  <label>\s*([0-9,.]+)<tail>  : the captured tokens, in order.
\* labels are the tokens the label part matches; tail is "" or "$".
RegexCaptures(text, labels, tail) ==
    LET hits == SelectSeq([k \in 1..Len(text) |-> k],
                          LAMBDA k : /\ text[k] \in labels
                                     /\ k + 1 <= Len(text)
                                     /\ MatchesDigitsClass(text[k + 1])
                                     /\ (tail = "" \/ (k + 2 <= Len(text) /\ text[k + 2] = tail)))
    IN [k \in 1..Len(hits) |-> extract_number(<<text[hits[k] + 1]>>)]

\* find_label_value (lines 336-357).
find_label_value(soup, label) ==
    LET fromNodes == FirstAccepted(NodeValues(soup, label), 0, 1) IN
    IF fromNodes.t # "none" THEN fromNodes
    ELSE FirstAccepted(RegexCaptures(PageText(soup), {label}, ""), 0, 1)

\* find_text_node then get_value_after_label (lines 360-372, 386, 389, 392).
FirstNodeValue(soup, label) ==
    IF Len(LabelNodes(soup, label)) = 0 THEN VNone ELSE NodeValues(soup, label)[1]

\* Every element find_all can return, in document order: an element, then
\* its inline children.
AllElems(soup) ==
    Concat([k \in 1..Len(soup) |->
        <<soup[k]>> \o
        [j \in 1..Len(SelectSeq(soup[k].kids, LAMBDA c : c.wrap # "")) |->
            LET c == SelectSeq(soup[k].kids, LAMBDA d : d.wrap # "")[j] IN
            Elem(c.wrap, "", <<Kid("", c.text)>>)]])

\* find_price_in_elements (lines 398-417).
find_price_in_elements(soup) ==
    LET classed == SelectSeq(AllElems(soup),
                             LAMBDA e : e.cls \in {"badge", "price", "tf-badge", "tf-meta"}
                                        /\ Contains(ElemText(e), "Base:"))
        byClass == FirstAccepted([k \in 1..Len(classed) |->
                                     ValueAfterLabel(ElemText(classed[k]), "Base:")],
                                 0, 1)
        tagged == SelectSeq(AllElems(soup),
                            LAMBDA e : e.tag \in {"div", "span", "td", "th"}
                                       /\ Contains(ElemText(e), "Base:")
                                       /\ Contains(ElemText(e), "$"))
        firstMatch(e) == LET c == RegexCaptures(ElemText(e), {"Base:"}, "") IN
                         IF Len(c) = 0 THEN VNone ELSE c[1]
        byTag == FirstAccepted([k \in 1..Len(tagged) |-> firstMatch(tagged[k])], 0, 1)
    IN IF byClass.t # "none" THEN byClass ELSE byTag

\* Lines 424-440: the two patterns over the page text, case ignored.
PatternSearch(soup) ==
    LET first == FirstAccepted(RegexCaptures(PageText(soup), {"Base:", "base:"}, "$"),
                               PlausibilityFloor, 1)
    IN IF first.t # "none" THEN first
       ELSE FirstAccepted(RegexCaptures(PageText(soup), {"Base:", "base:", "Base", "base"}, ""),
                          PlausibilityFloor, 1)

(***************************************************************************)
(* check_kronos_price: what it returns.                                    *)
(***************************************************************************)
StateNone == [t |-> "none", s |-> <<>>]
StateStr(tokens) == [t |-> "str", s |-> tokens]

\* The state label of the payload interpreter as text.
StateOf(str) ==
    IF str = NONE THEN StateNone ELSE IF str = "" THEN StateStr(<<>>) ELSE StateStr(<<str>>)

SnapshotKeys ==
    {"base_price", "kronos_price", "target_price", "sl_price", "state",
     "difference", "should_notify", "timestamp"}

Result(kind, path, exc, base, kronos, target, sl, state, difference, notify, keys) ==
    [kind |-> kind, path |-> path, exc |-> exc, base_price |-> base, kronos_price |-> kronos,
     target_price |-> target, sl_price |-> sl, state |-> state,
     difference |-> difference, should_notify |-> notify, keys |-> keys]

\* return None
ResultNone == Result("none", NONE, NONE, VNone, VNone, VNone, VNone, StateNone, 0, FALSE, {})

\* Not a return value: the call has not returned yet.
ResultPending == [ResultNone EXCEPT !.kind = "pending"]

\* Not a return value: the exception left check_kronos_price.
Escaped(exc) == [ResultNone EXCEPT !.kind = "raised", !.exc = exc]

\* A handler that lets everything but the errors of requests through.
CaughtOnlyRequests(exc) == IF exc = "RequestException" THEN ResultNone ELSE Escaped(exc)

\* Lines 485-487: "except Exception" returns None whatever was raised.
Caught(exc) == ResultNone

\* A rule that also notifies at the threshold itself.
ShouldNotifyAtThreshold(difference) == Abs(difference) >= Threshold

\* abs(difference) > 3.5
ShouldNotify(difference) == Abs(difference) > Threshold

\* A variant that passes the upstream flag on.
StreamSnapshotTrusting(data, parsed) ==
    Result("snapshot", "socket", NONE, parsed.base_price, parsed.kronos_price,
           parsed.target_price, parsed.sl_price, StateOf(parsed.state),
           parsed.kronos_price.n - parsed.base_price.n, data.should_notify, SnapshotKeys)

\* Lines 257-271: the dict returned from the streaming path.
StreamSnapshot(data, parsed) ==
    Result("snapshot", "socket", NONE, parsed.base_price, parsed.kronos_price,
           parsed.target_price, parsed.sl_price, StateOf(parsed.state),
           parsed.kronos_price.n - parsed.base_price.n,
           ShouldNotify(parsed.kronos_price.n - parsed.base_price.n), SnapshotKeys)

Outcome(t, result) == [t |-> t, result |-> result]

\* A variant that returns None when the payload is incomplete.
StreamOutcomeNoFallback(data, preferred_tf) ==
    LET parsed == parse_socketio_payload(data, preferred_tf) IN
    IF parsed.t = "raised" THEN Outcome("return", Caught(parsed.exc))
    ELSE IF parsed.t = "dict" /\ Truthy(parsed.base_price) /\ Truthy(parsed.kronos_price)
    THEN IF parsed.base_price.t # "num" \/ parsed.kronos_price.t # "num"
         THEN Outcome("return", Caught("TypeError"))
         ELSE Outcome("return", StreamSnapshot(data, parsed))
    ELSE Outcome("return", ResultNone)

\* Lines 254-272 for a truthy socket_data: the snapshot is returned, an
\* exception reaches the handler of line 485, or control falls to line 275.
StreamOutcome(data, preferred_tf) ==
    LET parsed == parse_socketio_payload(data, preferred_tf) IN
    IF parsed.t = "raised" THEN Outcome("return", Caught(parsed.exc))
    ELSE IF parsed.t = "dict" /\ Truthy(parsed.base_price) /\ Truthy(parsed.kronos_price)
    THEN IF parsed.base_price.t # "num" \/ parsed.kronos_price.t # "num"
         THEN Outcome("return", Caught("TypeError"))
         ELSE Outcome("return", StreamSnapshot(data, parsed))
    ELSE Outcome("fall", ResultPending)

\* A cascade that runs every stage and lets a later find replace the value.
BasePriceKeepsSearching(soup) ==
    LET b1 == FirstNodeValue(soup, "Base:")
        f2 == find_label_value(soup, "Base:")
        f3 == find_price_in_elements(soup)
        f4 == PatternSearch(soup)
        b2 == IF IsNoneOrZero(f2) THEN b1 ELSE f2
        b3 == IF IsNoneOrZero(f3) THEN b2 ELSE f3
        b4 == IF IsNoneOrZero(f4) THEN b3 ELSE f4
    IN [value |-> b4,
        stage |-> IF ~IsNoneOrZero(f4) THEN 4 ELSE IF ~IsNoneOrZero(f3) THEN 3
                  ELSE IF ~IsNoneOrZero(f2) THEN 2 ELSE IF b1.t # "none" THEN 1 ELSE 0,
        ran |-> <<1, 2, 3, 4>>]

\* Lines 386-388 and 420-440: the base price cascade; stage tells which
\* search gave the value (0 if none did), ran which searches were made: 1 is
\* get_value_after_label on the label's text node, 2 find_label_value, 3
\* find_price_in_elements, 4 the patterns over the page text.
BasePrice(soup) ==
    LET b1 == FirstNodeValue(soup, "Base:")
        b2 == IF IsNoneOrZero(b1) THEN find_label_value(soup, "Base:") ELSE b1
        b3 == IF IsNoneOrZero(b2) THEN find_price_in_elements(soup) ELSE b2
        b4 == IF IsNoneOrZero(b3) THEN PatternSearch(soup) ELSE b3
    IN [value |-> b4,
        stage |-> IF ~IsNoneOrZero(b1) THEN 1 ELSE IF ~IsNoneOrZero(b2) THEN 2
                  ELSE IF ~IsNoneOrZero(b3) THEN 3 ELSE IF b4.t # "none" THEN 4 ELSE 0,
        ran |-> <<1>> \o (IF IsNoneOrZero(b1) THEN <<2>> ELSE <<>>)
                      \o (IF IsNoneOrZero(b2) THEN <<3>> ELSE <<>>)
                      \o (IF IsNoneOrZero(b3) THEN <<4>> ELSE <<>>)]

\* Lines 389-394: target and stop-loss.
FieldPrice(soup, label) ==
    IF FirstNodeValue(soup, label).t = "none" THEN find_label_value(soup, label)
    ELSE FirstNodeValue(soup, label)

\* Lines 442-457.
KronosPrice(soup, target_price) ==
    LET nodes == LabelNodes(soup, "Kronos:")
        k1 == IF Len(nodes) > 0 THEN extract_number(nodes[1].text) ELSE VNone
        k2 == IF k1.t = "none"
              THEN FirstAccepted(NodeValues(soup, "Kronos:"), 0, 1) ELSE k1
    IN IF k2.t = "none" THEN target_price ELSE k2

\* Lines 459-462.
StateText(soup) ==
    IF Len(LabelNodes(soup, "State:")) = 0 THEN StateNone
    ELSE StateStr(AfterLabel(LabelNodes(soup, "State:")[1].text, "State:"))

\* A markup path without the test of line 464.
MarkupExtractNoCheck(page) ==
    LET soup == Decompose(page)
        base_price == BasePrice(soup).value
        target_price == FieldPrice(soup, "Target:")
        sl_price == FieldPrice(soup, "SL:")
        kronos_price == KronosPrice(soup, target_price)
    IN Result("snapshot", "markup", NONE, base_price, kronos_price, target_price,
              sl_price, StateText(soup), kronos_price.n - base_price.n,
              ShouldNotify(kronos_price.n - base_price.n), SnapshotKeys)

\* A markup path that gives up when any of the four prices is missing.
MarkupExtractAllFields(page) ==
    LET soup == Decompose(page)
        base_price == BasePrice(soup).value
        target_price == FieldPrice(soup, "Target:")
        sl_price == FieldPrice(soup, "SL:")
        kronos_price == KronosPrice(soup, target_price)
    IN IF \/ base_price.t = "none" \/ kronos_price.t = "none"
          \/ target_price.t = "none" \/ sl_price.t = "none"
       THEN ResultNone
       ELSE Result("snapshot", "markup", NONE, base_price, kronos_price, target_price,
                   sl_price, StateText(soup), kronos_price.n - base_price.n,
                   ShouldNotify(kronos_price.n - base_price.n), SnapshotKeys)

\* Lines 312-483: the markup path on a fetched page.
MarkupExtract(page) ==
    LET soup == Decompose(page)
        base_price == BasePrice(soup).value
        target_price == FieldPrice(soup, "Target:")
        sl_price == FieldPrice(soup, "SL:")
        kronos_price == KronosPrice(soup, target_price)
    IN IF base_price.t = "none" \/ kronos_price.t = "none" THEN ResultNone
       ELSE Result("snapshot", "markup", NONE, base_price, kronos_price, target_price,
                   sl_price, StateText(soup), kronos_price.n - base_price.n,
                   ShouldNotify(kronos_price.n - base_price.n), SnapshotKeys)

(***************************************************************************)
(* The environment: payloads the server may send, pages it may serve, the  *)
(* KRONOS_TIMEFRAME setting.                                               *)
(***************************************************************************)
BaseVals == {VNone, Num(0), Num(0 - 20), Num(10600), VStr}
PredictionVals == {VNone, Num(0), Num(10614), Num(10616), VStr}
KronosPredVals == {VNone, Num(10586), Num(10640), VStr}

Recs ==
    {Rec(b, p, k) : b \in BaseVals, p \in PredictionVals, k \in KronosPredVals}
        \cup {RecOfType("none"), RecOfType("list")}

\* A complete record whose base price tells the keys apart.
RecFor(key) ==
    CASE key = "AA" -> Rec(Num(10200), Num(10240), VNone)
      [] key = "D1" -> Rec(Num(10400), Num(10440), VNone)
      [] key = "H1" -> Rec(Num(10600), Num(10640), VNone)
      [] key = "ZZ" -> Rec(Num(10800), Num(10840), VNone)

OneKey(key, rec) == [t |-> "dict", recs |-> [k \in TFKeys |-> IF k = key THEN rec ELSE RecMissing]]
KeysPresent(K) == [t |-> "dict", recs |-> [k \in TFKeys |-> IF k \in K THEN RecFor(k) ELSE RecMissing]]

Conds ==
    {Cond("dict", "fa", "plain"), Cond("dict", NONE, "plain"), Cond("dict", "", NONE),
     Cond("dict", NONE, NONE), Cond("none", NONE, NONE), Cond("list", NONE, NONE), CondMissing}

Payloads ==
    {Payload(t, ResultsAbsent, McAbsent, FALSE) : t \in {"none", "empty", "list", "dict"}}
        \cup {Payload("dict", [t |-> "list", recs |-> NoRecs], McAbsent, FALSE),
              Payload("dict", [t |-> "dict", recs |-> NoRecs], McAbsent, FALSE)}
        \cup {Payload("dict", OneKey("H1", r), McAbsent, FALSE) : r \in Recs}
        \cup {Payload("dict", KeysPresent(K), McAbsent, f) : K \in SUBSET TFKeys \ {{}}, f \in BOOLEAN}
        \cup {Payload("dict", KeysPresent({"H1"}), [t |-> "dict", conds |-> [k \in TFKeys |-> c]], FALSE) :
                c \in Conds}
        \cup {Payload("dict", KeysPresent({"H1"}), [t |-> "list", conds |-> NoConds], FALSE),
              Payload("dict", OneKey("H1", Rec(Num(10600), Num(10614), VNone)), McAbsent, TRUE),
              Payload("dict", OneKey("H1", Rec(Num(10600), VNone, VNone)),
                      [t |-> "list", conds |-> NoConds], FALSE),
              Payload("dict", OneKey("H1", Rec(Num(10600), VNone, VNone)),
                      [t |-> "dict", conds |-> [k \in TFKeys |-> Cond("dict", "fa", "plain")]],
                      FALSE)}

\* The document a returned payload reference stands for.
Materialize(ret) == IF ret = NONE THEN {PNone} ELSE Payloads

Preferred == {NONE, "", "ZZ", "M30"}

Div(tokens) == Elem("div", "", <<Kid("", tokens)>>)

BaseOptions ==
    {<<>>,
     <<Div(<<"Base:", "2650", "$">>)>>,
     <<Div(<<"Base:", "-5", "$">>)>>,
     <<Div(<<"Base:", "0">>)>>,
     <<Div(<<"Base:", "w">>)>>,
     <<Elem("div", "", <<Kid("span", <<"Base:">>), Kid("span", <<"2650">>)>>)>>,
     <<Elem("div", "badge", <<Kid("span", <<"Base:">>), Kid("span", <<"w">>),
                              Kid("span", <<"2650", "$">>)>>)>>,
     <<Elem("p", "", <<Kid("span", <<"Base:">>), Kid("", <<"w", "2650", "$">>)>>)>>,
     <<Div(<<"base:", "2650", "$">>)>>,
     <<Div(<<"base:", "12", "$">>)>>,
     <<Div(<<"Base", "2650">>)>>,
     <<Elem("script", "", <<Kid("", <<"Base:", "9999">>)>>), Div(<<"Base:", "2651.5", "$">>)>>,
     <<Div(<<"Base:", "2650", "$", "Kronos:", "2660", "$">>)>>,
     <<Div(<<"Base:", "12", "$">>), Div(<<"Base:", "2650", "$">>)>>}

TargetOptions ==
    {<<>>,
     <<Div(<<"Target:", "2660">>)>>,
     <<Div(<<"Target:", "-5">>)>>,
     <<Div(<<"Target:", "0">>)>>,
     <<Elem("div", "", <<Kid("span", <<"Target:">>), Kid("span", <<"2660">>)>>)>>}

SLOptions ==
    {<<>>, <<Div(<<"SL:", "2645">>)>>, <<Div(<<"SL:", "0">>)>>}

KronosOptions ==
    {<<>>,
     <<Div(<<"Kronos:", "2653.5">>)>>,
     <<Div(<<"Kronos:", "2654">>)>>,
     <<Div(<<"Kronos:", "-5">>)>>,
     <<Elem("div", "", <<Kid("span", <<"Kronos:">>), Kid("span", <<"2660">>)>>)>>,
     <<Elem("div", "", <<Kid("", <<"Kronos:">>), Kid("span", <<"2645">>)>>)>>}

StateOptions == {<<>>, <<Div(<<"State:", "w">>)>>}

PagesFrom(B, T, S, K, St) ==
    {b \o t \o s \o k \o st : b \in B, t \in T, s \in S, k \in K, st \in St}

AllPages == PagesFrom(BaseOptions, TargetOptions, SLOptions, KronosOptions, StateOptions)

\* The pages met while the whole acquisition is explored.
FewPages ==
    PagesFrom({<<>>, <<Div(<<"Base:", "2650", "$">>)>>, <<Div(<<"Base:", "-5", "$">>)>>,
               <<Div(<<"Base:", "0">>)>>, <<Div(<<"base:", "2650", "$">>)>>},
              {<<>>, <<Div(<<"Target:", "2660">>)>>},
              {<<Div(<<"SL:", "2645">>)>>},
              {<<>>, <<Div(<<"Kronos:", "2653.5">>)>>, <<Div(<<"Kronos:", "2654">>)>>},
              {<<Div(<<"State:", "w">>)>>})

Pages(sc) == IF sc = "markup" THEN AllPages ELSE FewPages

(***************************************************************************)
(* main.  kronos_notifier.py gates on the time window and the credentials, *)
(* calls check_kronos_price and sends when should_notify is set.           *)
(* .github/kronos_notifier.py calls get_gold_predictions, tests            *)
(* should_trade, formats the message and sends.                            *)
(***************************************************************************)
\* Every value check_kronos_price can return: None, a streaming snapshot or
\* a markup snapshot.
CheckResults ==
    {ResultNone}
        \cup {StreamOutcome(d, p).result :
                d \in {x \in Payloads : PayloadTruthy(x)}, p \in Preferred}
        \cup {MarkupExtract(page) : page \in FewPages}

\* What data.get("confidence") can be: the key is missing, or its value is
\* null, 0, a number, a numeral in a string, or any other text.
ConfidenceVals == {"missing", "none", "zero", "num", "numstr", "text"}

\* The record get_gold_predictions returns (lines 73-81), or None.
Prediction(t, base, kronos, confidence) ==
    [t |-> t, base_price |-> base, kronos_price |-> kronos, confidence |-> confidence]
PredictionNone == Prediction("none", VNone, VNone, "missing")

Predictions ==
    {PredictionNone}
        \cup {Prediction("dict", Num(10600), k, c) :
                k \in {Num(10600), Num(10614), Num(10616), Num(10586), Num(10640)},
                c \in ConfidenceVals}

\* should_trade of .github/kronos_notifier.py
should_trade(base_price, kronos_price) == Abs(kronos_price.n - base_price.n) > Threshold

\* float(data.get("confidence") or 0.0) raises ValueError on text that is
\* no numeral.
ConfidenceRaises(confidence) == confidence = "text"

MnIdle ==
    [script |-> NONE, pc |-> "idle", result |-> ResultPending, data |-> PredictionNone,
     sends |-> 0, posts |-> 0, exc |-> NONE]

(***************************************************************************)
(* get_gold_predictions of .github/kronos_notifier.py.  The socketio       *)
(* client runs on_update_all on its own thread while the caller's thread   *)
(* sleeps in the loop of lines 89-90; both reach the dict prediction_data, *)
(* and a thread switch can fall between any two statements.                *)
(***************************************************************************)
MaxEvents == 2
MaxWaits == 2

\* An update_all event, by what on_update_all reads of it: whether results
\* is there and non-empty, whether a listed timeframe gives a base price,
\* whether it gives kronos_pred, and whether kronos_data is there (then with
\* predicted_price, decision and confidence).
Event(results, base, kronos_pred, kronos_data) ==
    [results |-> results, base |-> base, kronos_pred |-> kronos_pred,
     kronos_data |-> kronos_data]
EventNone == Event(FALSE, FALSE, FALSE, FALSE)

Events ==
    {EventNone, Event(FALSE, FALSE, FALSE, TRUE)}
        \cup {Event(TRUE, b, k, kd) : b \in BOOLEAN, k \in BOOLEAN, kd \in BOOLEAN}

\* The dict prediction_data: its keys, and from_kronos_data, which tells
\* whether the event it was built from carried kronos_data (not a key).
PredictionData(keys, from_kronos_data) == [keys |-> keys, from_kronos_data |-> from_kronos_data]
PredictionDataEmpty == PredictionData({}, FALSE)

\* Lines 46-71: base_price and kronos_pred as the callback computes them.
EventBase(e) == e.results /\ e.base
EventKronos(e) == (e.results /\ e.base /\ e.kronos_pred) \/ e.kronos_data

\* Lines 73-77: the dict bound to prediction_data.
AssignedRecord(e) ==
    PredictionData({"base_price", "kronos_price", "server_time"}, e.kronos_data)

GpIdle ==
    [pc |-> "idle", cb |-> "idle", connected |-> FALSE, event |-> EventNone, events |-> 0,
     waits |-> 0, prediction_data |-> PredictionDataEmpty,
     ret |-> "pending", ret_keys |-> {}, read |-> FALSE, read_keys |-> {}]

(***************************************************************************)
(* States and steps.                                                       *)
(***************************************************************************)
DecIdle == [pc |-> "idle", payload |-> <<>>, texts |-> <<>>, i |-> 0, packets |-> <<>>]

CkIdle ==
    [pc |-> "idle", socket_data |-> PNone, soup |-> <<>>, result |-> ResultPending,
     stream |-> NONE, hs_calls |-> 0, markup_runs |-> 0, extractions |-> 0,
     preferred_tf |-> NONE]

Request(kind, sid) == [kind |-> kind, sid |-> sid]

\* A call of decode_engineio_payload, on a framed list of texts or on an
\* arbitrary string.
InitDecode ==
    /\ scope = "decode"
    /\ mn = MnIdle
    /\ gp = GpIdle
    /\ \/ \E ts \in ListsUpTo(Texts, MaxTexts) :
            dec = [pc |-> "loop", payload |-> Encode(ts), texts |-> ts,
                   i |-> 0, packets |-> <<>>]
       \/ \E s \in StringsUpTo(RawChars, MaxRawLen) :
            dec = [pc |-> "loop", payload |-> s, texts |-> <<>>,
                   i |-> 0, packets |-> <<>>]
    /\ hs = HsIdle
    /\ net = <<>>
    /\ ck = CkIdle

\* One pass of the while loop of decode_engineio_payload.
DecodeIter ==
    /\ dec.pc = "loop"
    /\ LET s == DecodeStep(dec.payload, dec.i, dec.packets) IN
       dec' = [dec EXCEPT !.i = s.i, !.packets = s.packets, !.pc = s.pc]
    /\ UNCHANGED <<scope, mn, gp, hs, net, ck>>

NextDecode == DecodeIter

SpecDecode == InitDecode /\ [][NextDecode]_vars

\* The loop is the only thing the call does, so a pass that can be made is
\* made.
SpecDecodeFair == SpecDecode /\ WF_vars(DecodeIter)

\* A call of check_kronos_price.
Init ==
    /\ scope = "acquire"
    /\ mn = MnIdle
    /\ gp = GpIdle
    /\ dec = DecIdle
    /\ hs = HsIdle
    /\ net = <<>>
    /\ ck = [CkIdle EXCEPT !.pc = "start"]

\* Lines 247-252: fetch_update_all_via_socketio is called.
Start ==
    /\ ck.pc = "start"
    /\ ck' = [ck EXCEPT !.pc = "handshake", !.hs_calls = ck.hs_calls + 1]
    /\ hs' = HsCall
    /\ UNCHANGED <<scope, mn, gp, dec, net>>

\* Lines 160-174: the Open GET and what is made of its response.
HsOpen ==
    /\ ck.pc = "handshake" /\ hs.pc = "open"
    /\ net' = Append(net, Request("open", NONE))
    /\ \E r \in Responses(OpenBodies) : hs' = See(OpenResult(hs, r), Observed("open", r))
    /\ UNCHANGED <<scope, mn, gp, dec, ck>>

\* Lines 176-181: the Confirm POST.
HsConfirm ==
    /\ ck.pc = "handshake" /\ hs.pc = "confirm"
    /\ net' = Append(net, Request("confirm", hs.sid))
    /\ \E r \in Responses({<<>>, <<"o", "k">>}) :
         hs' = See(ConfirmResult(hs, r), Observed("confirm", r))
    /\ UNCHANGED <<scope, mn, gp, dec, ck>>

\* Lines 183-199: one pass of the poll loop.
HsPoll ==
    /\ ck.pc = "handshake" /\ hs.pc = "poll" /\ PollsLeft(hs)
    /\ net' = Append(net, Request("poll", hs.sid))
    /\ \E r \in Responses(PollBodies) : hs' = See(PollResult(hs, r), Observed("poll", r))
    /\ UNCHANGED <<scope, mn, gp, dec, ck>>

\* Line 202: the loop ran out.
HsExhausted ==
    /\ ck.pc = "handshake" /\ hs.pc = "poll" /\ ~PollsLeft(hs)
    /\ hs' = See(HsReturnNone(hs), {<<"poll", "exhausted">>})
    /\ UNCHANGED <<scope, mn, gp, dec, net, ck>>

\* An orchestrator that starts the handshake again when it gave nothing.
StreamingResultRetry ==
    /\ ck.pc = "handshake" /\ hs.pc = "ret"
    /\ hs' = HsIdle
    /\ \E data \in Materialize(hs.ret), preferred_tf \in Preferred :
         IF ~PayloadTruthy(data)
         THEN ck' = [ck EXCEPT !.pc = "start", !.socket_data = data,
                               !.stream = IF data.t = "none" THEN "no_payload" ELSE "falsy"]
         ELSE LET o == StreamOutcome(data, preferred_tf) IN
              IF o.t = "return"
              THEN ck' = [ck EXCEPT !.pc = "done", !.socket_data = data, !.result = o.result,
                                    !.preferred_tf = preferred_tf,
                                    !.stream = IF o.result.kind = "snapshot" THEN "snapshot"
                                               ELSE "raised"]
              ELSE ck' = [ck EXCEPT !.pc = "markup", !.socket_data = data,
                                    !.stream = "incomplete"]
    /\ UNCHANGED <<scope, mn, gp, dec, net>>

\* Lines 252-272: the handshake has returned; the payload is interpreted.
\* preferred_tf, read on line 254, is kept in the frame when the call
\* returns from this path; past line 272 nothing reads it any more.
StreamingResult ==
    /\ ck.pc = "handshake" /\ hs.pc = "ret"
    /\ hs' = HsIdle
    /\ \E data \in Materialize(hs.ret), preferred_tf \in Preferred :
         IF ~PayloadTruthy(data)
         THEN ck' = [ck EXCEPT !.pc = "markup", !.socket_data = data,
                               !.stream = IF data.t = "none" THEN "no_payload" ELSE "falsy"]
         ELSE LET o == StreamOutcome(data, preferred_tf) IN
              IF o.t = "return"
              THEN ck' = [ck EXCEPT !.pc = "done", !.socket_data = data, !.result = o.result,
                                    !.preferred_tf = preferred_tf,
                                    !.stream = IF o.result.kind = "snapshot" THEN "snapshot"
                                               ELSE "raised"]
              ELSE ck' = [ck EXCEPT !.pc = "markup", !.socket_data = data,
                                    !.stream = "incomplete"]
    /\ UNCHANGED <<scope, mn, gp, dec, net>>

\* Lines 275-310: the page is fetched and parsed.  With Selenium the page
\* comes from the browser; if anything there raises, and without Selenium,
\* it comes from requests.get, whose errors reach the handler of line 485.
FetchPage ==
    /\ ck.pc = "markup"
    /\ \/ \E page \in Pages(scope) :
            /\ net' = Append(net, Request("page_selenium", NONE))
            /\ ck' = [ck EXCEPT !.pc = "extract", !.soup = page,
                                !.markup_runs = ck.markup_runs + 1]
       \/ \E selenium \in BOOLEAN, page \in Pages(scope) :
            /\ net' = IF selenium
                      THEN net \o <<Request("page_selenium", NONE), Request("page_get", NONE)>>
                      ELSE Append(net, Request("page_get", NONE))
            /\ ck' = [ck EXCEPT !.pc = "extract", !.soup = page,
                                !.markup_runs = ck.markup_runs + 1]
       \/ \E selenium \in BOOLEAN, exc \in {"RequestException", "HTTPError", "ParserRejectedMarkup"} :
            /\ net' = IF selenium
                      THEN net \o <<Request("page_selenium", NONE), Request("page_get", NONE)>>
                      ELSE Append(net, Request("page_get", NONE))
            /\ ck' = [ck EXCEPT !.pc = "done", !.result = Caught(exc),
                                !.markup_runs = ck.markup_runs + 1]
    /\ UNCHANGED <<scope, mn, gp, dec, hs>>

\* Lines 312-483: the fields are extracted and the result returned.
Extract ==
    /\ ck.pc = "extract"
    /\ ck' = [ck EXCEPT !.pc = "done", !.result = MarkupExtract(ck.soup),
                        !.extractions = ck.extractions + 1]
    /\ UNCHANGED <<scope, mn, gp, dec, hs, net>>

Next ==
    \/ Start
    \/ HsOpen
    \/ HsConfirm
    \/ HsPoll
    \/ HsExhausted
    \/ StreamingResult
    \/ FetchPage
    \/ Extract

Spec == Init /\ [][Next]_vars

\* The markup path alone, entered after an Open request that failed.
InitMarkup ==
    /\ scope = "markup"
    /\ mn = MnIdle
    /\ gp = GpIdle
    /\ dec = DecIdle
    /\ hs = HsIdle
    /\ net = <<Request("open", NONE)>>
    /\ ck = [CkIdle EXCEPT !.pc = "markup", !.stream = "no_payload", !.hs_calls = 1]

NextMarkup ==
    \/ FetchPage
    \/ Extract

SpecMarkup == InitMarkup /\ [][NextMarkup]_vars

\* One invocation of main, of one of the two scripts.
InitMain ==
    /\ scope = "main"
    /\ \E script \in {"page", "socketio"} : mn = [MnIdle EXCEPT !.script = script, !.pc = "start"]
    /\ gp = GpIdle
    /\ dec = DecIdle
    /\ hs = HsIdle
    /\ net = <<>>
    /\ ck = CkIdle

\* kronos_notifier.py lines 495-508: outside the time window, or without
\* the credentials, main returns at once.
MainGate ==
    /\ mn.script = "page" /\ mn.pc = "start"
    /\ \E in_window \in BOOLEAN, credentials \in BOOLEAN :
         mn' = [mn EXCEPT !.pc = IF in_window /\ credentials THEN "check" ELSE "done"]
    /\ UNCHANGED <<scope, gp, dec, hs, net, ck>>

\* kronos_notifier.py lines 510-512.
MainCheck ==
    /\ mn.script = "page" /\ mn.pc = "check"
    /\ \E r \in CheckResults :
         mn' = [mn EXCEPT !.result = r,
                          !.pc = IF r.kind = "snapshot" THEN "notify" ELSE "done"]
    /\ UNCHANGED <<scope, gp, dec, hs, net, ck>>

\* kronos_notifier.py lines 514-534: the message is built and handed to
\* send_telegram_message, which posts it once.
MainNotify ==
    /\ mn.script = "page" /\ mn.pc = "notify"
    /\ IF mn.result.should_notify
       THEN /\ mn' = [mn EXCEPT !.pc = "done", !.sends = mn.sends + 1, !.posts = mn.posts + 1]
            /\ net' = Append(net, Request("sendMessage", NONE))
       ELSE /\ mn' = [mn EXCEPT !.pc = "done"]
            /\ net' = net
    /\ UNCHANGED <<scope, gp, dec, hs, ck>>

\* .github/kronos_notifier.py lines 103-106.
MainAcquire ==
    /\ mn.script = "socketio" /\ mn.pc = "start"
    /\ \E d \in Predictions :
         mn' = [mn EXCEPT !.data = d, !.pc = IF d.t = "dict" THEN "trade" ELSE "done"]
    /\ UNCHANGED <<scope, gp, dec, hs, net, ck>>

\* .github/kronos_notifier.py lines 108-147: should_trade, the message, and
\* send_telegram_message, which posts only when token and chat id are set.
MainTrade ==
    /\ mn.script = "socketio" /\ mn.pc = "trade"
    /\ IF ~should_trade(mn.data.base_price, mn.data.kronos_price)
       THEN mn' = [mn EXCEPT !.pc = "done"] /\ net' = net
       ELSE IF ConfidenceRaises(mn.data.confidence)
       THEN mn' = [mn EXCEPT !.pc = "raised", !.exc = "ValueError"] /\ net' = net
       ELSE \E credentials \in BOOLEAN :
              /\ mn' = [mn EXCEPT !.pc = "done", !.sends = mn.sends + 1,
                                  !.posts = IF credentials THEN mn.posts + 1 ELSE mn.posts]
              /\ net' = IF credentials THEN Append(net, Request("sendMessage", NONE)) ELSE net
    /\ UNCHANGED <<scope, gp, dec, hs, ck>>

NextMain ==
    \/ MainGate
    \/ MainCheck
    \/ MainNotify
    \/ MainAcquire
    \/ MainTrade

SpecMain == InitMain /\ [][NextMain]_vars

\* One call of get_gold_predictions.
InitPredict ==
    /\ scope = "predict"
    /\ gp = [GpIdle EXCEPT !.pc = "connect"]
    /\ mn = MnIdle
    /\ dec = DecIdle
    /\ hs = HsIdle
    /\ net = <<>>
    /\ ck = CkIdle

\* Lines 84-88 and 92-94: sio.connect, which may raise.
GpConnect ==
    /\ gp.pc = "connect"
    /\ \/ gp' = [gp EXCEPT !.pc = "wait", !.connected = TRUE]
       \/ gp' = [gp EXCEPT !.pc = "returned", !.ret = "none"]
    /\ UNCHANGED <<scope, mn, dec, hs, net, ck>>

\* Lines 89-90: one test of the loop condition; the loop ends when the dict
\* is non-empty or the ten seconds are over.
GpWait ==
    /\ gp.pc = "wait"
    /\ IF gp.prediction_data.keys # {}
       THEN gp' = [gp EXCEPT !.pc = "disconnect"]
       ELSE \/ gp.waits < MaxWaits /\ gp' = [gp EXCEPT !.waits = gp.waits + 1]
            \/ gp' = [gp EXCEPT !.pc = "disconnect"]
    /\ UNCHANGED <<scope, mn, dec, hs, net, ck>>

\* Lines 91 and 96: disconnect, then return the dict itself, or None.
GpReturn ==
    /\ gp.pc = "disconnect"
    /\ gp' = [gp EXCEPT !.pc = "returned", !.connected = FALSE,
                        !.ret = IF gp.prediction_data.keys # {} THEN "dict" ELSE "none",
                        !.ret_keys = gp.prediction_data.keys]
    /\ UNCHANGED <<scope, mn, dec, hs, net, ck>>

\* main, lines 103-112: the caller reads decision and confidence of the
\* dict it was handed.
GpMainRead ==
    /\ gp.pc = "returned" /\ gp.ret = "dict" /\ ~gp.read
    /\ gp' = [gp EXCEPT !.read = TRUE, !.read_keys = gp.prediction_data.keys]
    /\ UNCHANGED <<scope, mn, dec, hs, net, ck>>

\* Line 40: the client thread calls on_update_all with an event.
CbDeliver ==
    /\ gp.connected /\ gp.cb = "idle" /\ gp.events < MaxEvents
    /\ \E e \in Events : gp' = [gp EXCEPT !.cb = "run", !.event = e, !.events = gp.events + 1]
    /\ UNCHANGED <<scope, mn, dec, hs, net, ck>>

\* Lines 41-77: the event is read; with a base price and a prediction a new
\* dict is bound to prediction_data.
CbAssign ==
    /\ gp.cb = "run"
    /\ IF EventBase(gp.event) /\ EventKronos(gp.event)
       THEN gp' = [gp EXCEPT !.prediction_data = AssignedRecord(gp.event),
                             !.cb = IF gp.event.kronos_data THEN "decision" ELSE "disconnect"]
       ELSE gp' = [gp EXCEPT !.cb = "idle"]
    /\ UNCHANGED <<scope, mn, dec, hs, net, ck>>

\* Line 80.
CbDecision ==
    /\ gp.cb = "decision"
    /\ gp' = [gp EXCEPT !.cb = "confidence",
                        !.prediction_data.keys = gp.prediction_data.keys \cup {"decision"}]
    /\ UNCHANGED <<scope, mn, dec, hs, net, ck>>

\* Line 81.
CbConfidence ==
    /\ gp.cb = "confidence"
    /\ gp' = [gp EXCEPT !.cb = "disconnect",
                        !.prediction_data.keys = gp.prediction_data.keys \cup {"confidence"}]
    /\ UNCHANGED <<scope, mn, dec, hs, net, ck>>

\* Line 82.
CbDisconnect ==
    /\ gp.cb = "disconnect"
    /\ gp' = [gp EXCEPT !.cb = "idle", !.connected = FALSE]
    /\ UNCHANGED <<scope, mn, dec, hs, net, ck>>

NextPredict ==
    \/ GpConnect
    \/ GpWait
    \/ GpReturn
    \/ GpMainRead
    \/ CbDeliver
    \/ CbAssign
    \/ CbDecision
    \/ CbConfidence
    \/ CbDisconnect

SpecPredict == InitPredict /\ [][NextPredict]_vars

(***************************************************************************)
(* Properties.                                                             *)
(***************************************************************************)
CountKind(kind) == Len(SelectSeq(net, LAMBDA r : r.kind = kind))
HandshakeRequests == SelectSeq(net, LAMBDA r : r.kind \in {"open", "confirm", "poll"})
UpdateBlobs == {JUpdate1, JUpdate2}
HasUpdate(text) == \E k \in 1..Len(text) : text[k] \in UpdateBlobs
FirstUpdate(text) ==
    text[CHOOSE k \in 1..Len(text) :
            text[k] \in UpdateBlobs /\ \A j \in 1..(k - 1) : text[j] \notin UpdateBlobs]

\* C1: check_kronos_price never lets an exception escape: whatever the
\* handshake, the payload, the page fetch and the extraction do, it returns
\* a snapshot or None.
NoExceptionEscapes ==
    /\ ck.result.kind \in {"pending", "snapshot", "none"}
    /\ ck.pc = "done" <=> ck.result.kind \in {"snapshot", "none"}

\* Witness for C1: the interpretation of a delivered payload raised, and
\* the call has returned None.
NoExceptionEscapesWitness ==
    ck.pc = "done" /\ ck.stream = "raised" /\ ck.result.kind = "none"

\* C2: in every snapshot returned, by either path, difference is
\* kronos_price - base_price and should_notify is |difference| > 3.5,
\* strictly; the flag the payload carries is not used.
SnapshotRecomputed ==
    ck.result.kind = "snapshot" =>
        /\ ck.result.difference = ck.result.kronos_price.n - ck.result.base_price.n
        /\ ck.result.should_notify = (Abs(ck.result.difference) > Threshold)

\* Witness for C2: a streaming snapshot whose divergence is exactly 3.5 says
\* "do not notify" although the payload's own flag says "notify".
SnapshotRecomputedWitness ==
    /\ ck.result.kind = "snapshot" /\ ck.result.path = "socket"
    /\ Abs(ck.result.difference) = Threshold
    /\ ~ck.result.should_notify
    /\ ck.socket_data.should_notify

\* C3: a snapshot has both prices; when the base or the predicted price is
\* still missing after every markup stage, None is returned.
BothPricesPresent ==
    /\ ck.result.kind = "snapshot" =>
          ck.result.base_price.t # "none" /\ ck.result.kronos_price.t # "none"
    /\ (/\ ck.pc = "done" /\ ck.extractions = 1
        /\ \/ BasePrice(Decompose(ck.soup)).value.t = "none"
           \/ KronosPrice(Decompose(ck.soup), FieldPrice(Decompose(ck.soup), "Target:")).t = "none")
       => ck.result.kind = "none"

\* Witness for C3: the page gave a base price but neither a Kronos value
\* nor a target, and the markup path returned None.
BothPricesPresentWitness ==
    /\ ck.pc = "done" /\ ck.extractions = 1
    /\ BasePrice(Decompose(ck.soup)).value.t = "num"
    /\ KronosPrice(Decompose(ck.soup), FieldPrice(Decompose(ck.soup), "Target:")).t = "none"
    /\ ck.result.kind = "none"

\* C4: in every snapshot returned, base_price is strictly greater than 0.
BasePricePositive ==
    ck.result.kind = "snapshot" => ck.result.base_price.n > 0

\* C5: when the handshake returns no payload the markup path runs exactly
\* once and its result is returned; the handshake is called once and never
\* again.
FallbackOnce ==
    /\ ck.hs_calls <= 1 /\ CountKind("open") <= 1
    /\ ck.markup_runs <= 1 /\ ck.extractions <= ck.markup_runs
    /\ ck.pc \in {"markup", "extract", "done"} => hs.pc = "idle" /\ ck.hs_calls = 1
    /\ (ck.pc = "done" /\ ck.stream = "no_payload") =>
          /\ ck.markup_runs = 1
          /\ ck.result = IF ck.extractions = 1 THEN MarkupExtract(ck.soup) ELSE ResultNone

\* Witness for C5: no payload came, the markup path ran once and its
\* snapshot was returned.
FallbackOnceWitness ==
    /\ ck.pc = "done" /\ ck.stream = "no_payload"
    /\ ck.hs_calls = 1 /\ ck.markup_runs = 1 /\ ck.extractions = 1
    /\ ck.result.kind = "snapshot" /\ ck.result.path = "markup"

\* C6: the failure outcome is never returned without the markup path
\* having been attempted, also when the payload delivered is malformed.
FailureOnlyAfterMarkup ==
    (ck.pc = "done" /\ ck.result.kind = "none") => ck.markup_runs >= 1

NonePayloadCauses ==
    {<<"open", "error">>, <<"open", "status">>, <<"open", "malformed_json">>,
     <<"open", "no_sid">>, <<"confirm", "error">>, <<"poll", "error">>,
     <<"poll", "status">>, <<"poll", "exhausted">>}

HandshakeOrder ==
    LET reqs == HandshakeRequests IN
    /\ Len(reqs) <= 2 + max_polls
    /\ CountKind("poll") <= max_polls
    /\ \A k \in 1..Len(reqs) :
          /\ (k = 1) <=> (reqs[k].kind = "open")
          /\ (k = 2) <=> (reqs[k].kind = "confirm")
          /\ (k >= 3) <=> (reqs[k].kind = "poll")
          /\ k >= 2 => SidTruthy(reqs[k].sid) /\ reqs[k].sid = reqs[2].sid
    /\ (Len(reqs) >= 2 /\ hs.pc # "idle") =>
          \/ reqs[2].sid = "s1" /\ Contains(hs.open_text, JSid1)
          \/ reqs[2].sid = "s2" /\ Contains(hs.open_text, JSid2)

\* Witness for C8: a call that made all of its 2 + max_polls requests.
HandshakeOrderWitness ==
    /\ Len(HandshakeRequests) = 2 + max_polls
    /\ HandshakeRequests[2 + max_polls] = [kind |-> "poll", sid |-> "s2"]

\* C9: the payload of the first update_all packet, in arrival order, is
\* returned at once: the poll that brought it is the last one, whatever
\* the number of polls made so far, and a response that brought one never
\* lets the loop go on.
ShortCircuit ==
    /\ [](/\ (hs.pc = "ret" /\ hs.ret # NONE) =>
                /\ HasUpdate(hs.poll_text)
                /\ hs.ret = FirstUpdate(hs.poll_text)
                /\ CountKind("poll") = hs.polls + 1
          /\ (hs.pc = "poll" /\ hs.polls > 0) => ~HasUpdate(hs.poll_text))
    /\ [][hs.pc # "poll" => CountKind("poll")' = CountKind("poll")]_vars

\* Witness for C9: the first poll brought two update_all packets after a
\* skipped one, and the payload of the first of the two is returned.
ShortCircuitWitness ==
    /\ hs.pc = "ret" /\ hs.ret = JUpdate2 /\ hs.polls = 0
    /\ hs.poll_text = Encode(<<<<"4", "2", JUpdate2>>, <<"4", "2", JUpdate1>>>>)

\* C10: decoding the concatenation of "<len(text)>:<text>" segments of any
\* list of texts, the empty list included, returns exactly that list.
FramingRoundTrip ==
    (dec.pc # "loop" /\ dec.payload = Encode(dec.texts)) =>
        dec.pc = "done" /\ dec.packets = dec.texts

\* Witness for C10: a framed list of two texts, one with a two-digit length
\* prefix and one holding framing characters, has been decoded.
FramingRoundTripWitness ==
    /\ dec.pc = "done"
    /\ Len(dec.texts) = 2
    /\ Len(dec.texts[1]) >= 10
    /\ dec.texts[2] = <<"1", ":">>
    /\ dec.payload = Encode(dec.texts)
    /\ dec.packets = dec.texts

\* A decimal length prefix "<digits>:" starts at read position i.
HasLengthPrefix(payload, i) ==
    \E j \in (i + 1)..(Len(payload) - 1) :
        /\ \A k \in (i + 1)..j : payload[k] \in Digits
        /\ payload[j + 1] = ":"

\* C11: when the loop of decode_engineio_payload stands at a position where
\* no "<digits>:" prefix starts, that pass appends the whole remaining buffer
\* as one final packet and stops, keeping the packets decoded before.
RemainderIsFinalPacket ==
    [][(dec.pc = "loop" /\ dec.i < Len(dec.payload)
            /\ ~HasLengthPrefix(dec.payload, dec.i)) =>
         /\ dec'.pc = "done"
         /\ dec'.packets =
                Append(dec.packets, Slice(dec.payload, dec.i, Len(dec.payload)))]_vars

\* The place of a key in the order of Python's string comparison.
KeyRank(key) == CHOOSE n \in 1..Len(KeyOrder) : KeyOrder[n] = key

\* The results of the payload the orchestrator received, once it is a dict.
HasResults == ck.socket_data.t = "dict" /\ ck.socket_data.results.t = "dict"

\* The key the streaming path selected before it returned.
SelectedTimeframe == select_timeframe(ck.socket_data.results, ck.preferred_tf)

\* C12: select_timeframe returns the preferred key when one is supplied and
\* is a key of results; otherwise the first key of H1, M30, M15, M5, M1, H4,
\* D1, W1, MN that is a key of results; otherwise the smallest key; no key
\* only for empty results; and what it returns is always a key of results.
TimeframeChoice ==
    HasResults =>
        \A preferred \in Preferred :
            LET K == Keys(ck.socket_data.results)
                tf == select_timeframe(ck.socket_data.results, preferred)
                ranked == {n \in 1..Len(PreferenceOrder) : PreferenceOrder[n] \in K}
            IN /\ IF preferred \notin {NONE, ""} /\ preferred \in K THEN tf = preferred
                  ELSE IF ranked # {}
                  THEN \E n \in ranked : /\ tf = PreferenceOrder[n]
                                         /\ \A m \in ranked : n <= m
                  ELSE IF K # {}
                  THEN tf \in K /\ \A k \in K : KeyRank(tf) <= KeyRank(k)
                  ELSE tf = NONE
               /\ (tf = NONE) <=> (K = {})
               /\ tf # NONE => tf \in K

\* Witness for C12: the streaming path returned the record of the preferred
\* key ZZ although H1, first in the fixed order, was a key as well.
TimeframeChoiceWitness ==
    /\ ck.pc = "done" /\ ck.stream = "snapshot"
    /\ ck.preferred_tf = "ZZ"
    /\ {"H1", "ZZ"} \subseteq Keys(ck.socket_data.results)
    /\ SelectedTimeframe = "ZZ"
    /\ ck.result.base_price = RecFor("ZZ").base_price

\* A snapshot came back from the streaming path.
StreamSnapshotReturned ==
    ck.pc = "done" /\ ck.stream = "snapshot" /\ ck.result.kind = "snapshot"

\* The record of the selected timeframe in the payload received.
SelectedRecord == ck.socket_data.results.recs[SelectedTimeframe]

\* C13, as stated: the kronos_price of a streaming snapshot is the selected
\* record's prediction when it has one, otherwise its kronos_pred, otherwise
\* its base price.
KronosPriceFromPrediction ==
    StreamSnapshotReturned =>
        ck.result.kronos_price =
            Or(SelectedRecord.prediction,
               Or(SelectedRecord.kronos_pred, SelectedRecord.base_price))

\* C13, amended: the kronos_price of a streaming snapshot is the selected
\* record's kronos_pred when that is truthy, otherwise its prediction when
\* that is truthy, otherwise its base price.
KronosPriceFromKronosPred ==
    StreamSnapshotReturned =>
        ck.result.kronos_price =
            Or(SelectedRecord.kronos_pred,
               Or(SelectedRecord.prediction, SelectedRecord.base_price))

\* Witness for C13: the record held two different predictions and the
\* snapshot carries kronos_pred.
KronosPriceFromKronosPredWitness ==
    /\ StreamSnapshotReturned
    /\ Truthy(SelectedRecord.prediction) /\ Truthy(SelectedRecord.kronos_pred)
    /\ SelectedRecord.prediction # SelectedRecord.kronos_pred
    /\ ck.result.kronos_price = SelectedRecord.kronos_pred

\* The value line 231 hands to compute_tp_sl for the selected record.
SelectedPrediction ==
    Or(SelectedRecord.prediction, Or(SelectedRecord.kronos_pred, SelectedRecord.base_price))

\* target is predicted, and the stop-loss lies half of |predicted - base|
\* from base, on the side away from predicted.
TargetAndStopLossOf(predicted, base, target, sl) ==
    /\ target = predicted
    /\ sl.t = "num"
    /\ 2 * sl.n = IF predicted.n > base.n
                  THEN 2 * base.n - Abs(predicted.n - base.n)
                  ELSE 2 * base.n + Abs(predicted.n - base.n)

\* C14, as stated: in a streaming snapshot target_price is the snapshot's
\* predicted price (kronos_price) and sl_price is base -/+ 0.5 * |predicted -
\* base| for that predicted price.
TargetIsKronosPrice ==
    StreamSnapshotReturned =>
        TargetAndStopLossOf(ck.result.kronos_price, ck.result.base_price,
                            ck.result.target_price, ck.result.sl_price)

\* C14, amended: target_price and sl_price of a streaming snapshot are
\* derived from the record's prediction, else kronos_pred, else base price,
\* which need not be the snapshot's kronos_price.
TargetIsPrediction ==
    StreamSnapshotReturned =>
        TargetAndStopLossOf(SelectedPrediction, ck.result.base_price,
                            ck.result.target_price, ck.result.sl_price)

\* Witness for C14: base 2650, prediction 2653.5 and kronos_pred 2660 gave
\* target 2653.5 and stop-loss 2648.25 beside a kronos_price of 2660.
TargetIsPredictionWitness ==
    /\ StreamSnapshotReturned
    /\ SelectedRecord = Rec(Num(10600), Num(10614), Num(10640))
    /\ ck.result.kronos_price = Num(10640)
    /\ ck.result.target_price = Num(10614)
    /\ ck.result.sl_price = Num(10593)

\* C15: every snapshot returned from the streaming path has a timeframe
\* field, and no snapshot returned from the markup path has one.
SnapshotCarriesTimeframe ==
    (ck.pc = "done" /\ ck.result.kind = "snapshot") =>
        ("timeframe" \in ck.result.keys) <=> (ck.result.path = "socket")

\* The markup path ran to its end on the page ck.soup.
MarkupExtracted == ck.pc = "done" /\ ck.extractions = 1

\* What each stage of the base price search finds on a cleaned page, whether
\* the cascade runs the stage or not.
BaseStageFinds(soup) ==
    <<FirstNodeValue(soup, "Base:"), find_label_value(soup, "Base:"),
      find_price_in_elements(soup), PatternSearch(soup)>>

\* A usable price: a number above zero.
Usable(v) == v.t = "num" /\ v.n > 0

\* C16: the base price search runs its stages in the order 1, 2, 3, 4; a
\* stage runs only if no earlier stage found a usable value; and once a
\* stage finds a usable value no later stage runs and that value is the base
\* price of the snapshot.
BaseCascadeOrder ==
    MarkupExtracted =>
        LET soup == Decompose(ck.soup)
            finds == BaseStageFinds(soup)
            b == BasePrice(soup)
        IN /\ \E k \in 1..4 : b.ran = [n \in 1..k |-> n]
           /\ \A n \in 2..Len(b.ran) : \A m \in 1..(n - 1) : ~Usable(finds[m])
           /\ \A n \in 1..Len(b.ran) :
                Usable(finds[n]) =>
                    /\ Len(b.ran) = n
                    /\ b.value = finds[n]
                    /\ ck.result.kind = "snapshot" => ck.result.base_price = finds[n]

\* Witness for C16: the first two stages found nothing, the class search
\* found 2650, and the snapshot carries it.
BaseCascadeOrderWitness ==
    /\ MarkupExtracted
    /\ BasePrice(Decompose(ck.soup)).ran = <<1, 2, 3>>
    /\ BaseStageFinds(Decompose(ck.soup))[3] = Num(10600)
    /\ ck.result.kind = "snapshot"
    /\ ck.result.base_price = Num(10600)

\* A snapshot came back from the markup path.
MarkupSnapshotReturned ==
    MarkupExtracted /\ ck.result.kind = "snapshot" /\ ck.result.path = "markup"

\* C17: no snapshot of the markup path holds a base, target or stop-loss
\* price that is zero or negative: such a value is rejected by the stage
\* that found it.
MarkupPricesPositive ==
    MarkupSnapshotReturned =>
        /\ Usable(ck.result.base_price)
        /\ ck.result.target_price.t # "none" => Usable(ck.result.target_price)
        /\ ck.result.sl_price.t # "none" => Usable(ck.result.sl_price)

\* The numbers that follow the Kronos: label in a text node holding the
\* label, or in the text of that node's element.
ValuesAtKronosLabel(soup) ==
    LET nodes == LabelNodes(soup, "Kronos:") IN
    {v \in {ValueAfterLabel(nodes[k].text, "Kronos:") : k \in 1..Len(nodes)}
             \cup {ValueAfterLabel(nodes[k].parent_text, "Kronos:") : k \in 1..Len(nodes)} :
        v.t = "num"}

\* C18: the predicted price of the markup path is the value found at the
\* Kronos: label when there is one; it is the extracted target price only
\* when there is none; and with neither, the markup path returns no data.
KronosFromLabel ==
    MarkupExtracted =>
        LET soup == Decompose(ck.soup)
            atLabel == ValuesAtKronosLabel(soup)
        IN /\ MarkupSnapshotReturned =>
                IF atLabel # {} THEN ck.result.kronos_price \in atLabel
                ELSE /\ ck.result.target_price.t = "num"
                     /\ ck.result.kronos_price = ck.result.target_price
           /\ (atLabel = {} /\ FieldPrice(soup, "Target:").t = "none") =>
                ck.result.kind = "none"

\* C19: when the markup path obtained a base price and a predicted price it
\* returns a snapshot, with None for a target, stop-loss or state it did not
\* find; it returns no data only when the base or the predicted price is
\* missing.
ParseMissPerField ==
    MarkupExtracted =>
        LET soup == Decompose(ck.soup)
            base == BasePrice(soup).value
            target == FieldPrice(soup, "Target:")
            predicted == KronosPrice(soup, target)
        IN /\ (base.t = "num" /\ predicted.t = "num") =>
                /\ MarkupSnapshotReturned
                /\ ck.result.base_price = base
                /\ ck.result.kronos_price = predicted
                /\ ck.result.target_price = target
                /\ ck.result.sl_price = FieldPrice(soup, "SL:")
                /\ ck.result.state = StateText(soup)
                /\ {"target_price", "sl_price", "state"} \subseteq ck.result.keys
           /\ ck.result.kind = "none" => (base.t = "none" \/ predicted.t = "none")

\* Witness for C19: a page with a base and a Kronos price but no target, no
\* stop-loss and no state gave a snapshot whose three fields are None.
ParseMissPerFieldWitness ==
    /\ MarkupSnapshotReturned
    /\ LabelNodes(Decompose(ck.soup), "Target:") = <<>>
    /\ LabelNodes(Decompose(ck.soup), "SL:") = <<>>
    /\ LabelNodes(Decompose(ck.soup), "State:") = <<>>
    /\ ck.result.base_price.t = "num" /\ ck.result.kronos_price.t = "num"
    /\ ck.result.target_price = VNone
    /\ ck.result.sl_price = VNone
    /\ ck.result.state = StateNone

\* main has ended, by a return or by an exception.
MainEnded == mn.pc \in {"done", "raised"}

\* The acquisition of this invocation returned a snapshot whose divergence
\* |predicted - base| exceeds 3.5.
AcquiredDivergence ==
    \/ /\ mn.script = "page" /\ mn.result.kind = "snapshot"
       /\ Abs(mn.result.kronos_price.n - mn.result.base_price.n) > Threshold
    \/ /\ mn.script = "socketio" /\ mn.data.t = "dict"
       /\ Abs(mn.data.kronos_price.n - mn.data.base_price.n) > Threshold

\* C20: in one invocation of main exactly one send is attempted when the
\* acquisition returned a snapshot whose divergence exceeds 3.5, and none
\* otherwise.
AlertIffDivergence ==
    /\ mn.sends <= 1
    /\ MainEnded => (mn.sends = 1 <=> AcquiredDivergence)

\* A poll of the running handshake met a network error or a status outside
\* 2xx.
PollFailed == <<"poll", "error">> \in hs.seen \/ <<"poll", "status">> \in hs.seen

\* C21: once a poll request raised a network error or came back with a
\* status outside 2xx, fetch_update_all_via_socketio returns None: it is at
\* its return with no payload, no further poll is issued, and the
\* orchestrator receives None and goes on to the markup path.
PollFailureIsFinal ==
    /\ [](PollFailed => (hs.pc = "ret" /\ hs.ret = NONE))
    /\ [][PollFailed =>
            /\ CountKind("poll")' = CountKind("poll")
            /\ hs'.pc = "idle"
            /\ ck'.socket_data = PNone /\ ck'.stream = "no_payload"]_vars

\* Witness for C21: the third poll failed after two polls without the
\* event, and the call stands at its return of None with two polls unused.
PollFailureIsFinalWitness ==
    /\ PollFailed
    /\ hs.polls = 2 /\ CountKind("poll") = 3
    /\ hs.pc = "ret" /\ hs.ret = NONE

\* C22: a record that get_gold_predictions returns, built from an event
\* with kronos_data, holds decision and confidence when it is returned, and
\* so when main reads them.
ReturnedRecordComplete ==
    (gp.pc = "returned" /\ gp.ret = "dict" /\ gp.prediction_data.from_kronos_data) =>
        /\ {"decision", "confidence"} \subseteq gp.ret_keys
        /\ gp.read => {"decision", "confidence"} \subseteq gp.read_keys

\* The streaming path has interpreted a payload whose selected record gives
\* a number other than zero as base_price and nothing, or zero, as
\* prediction and as kronos_pred, the market conditions being absent or a
\* dict of dicts.
BaseOnlyRecord ==
    /\ ck.pc \in {"markup", "extract", "done"}
    /\ HasResults /\ Keys(ck.socket_data.results) # {}
    /\ SelectedRecord.t = "dict"
    /\ SelectedRecord.base_price.t = "num" /\ SelectedRecord.base_price.n # 0
    /\ ~Truthy(SelectedRecord.prediction) /\ ~Truthy(SelectedRecord.kronos_pred)
    /\ ck.socket_data.market_conditions.t # "list"
    /\ ck.socket_data.market_conditions.t = "dict" =>
          ck.socket_data.market_conditions.conds[SelectedTimeframe].t \in {"dict", "missing"}

RECURSIVE PacketsFitFrom(_, _, _, _)
PacketsFitFrom(payload, packets, k, from) ==
    \/ k > Len(packets)
    \/ \E start \in from..(Len(payload) - Len(packets[k])) :
         /\ SubSeq(payload, start + 1, start + Len(packets[k])) = packets[k]
         /\ PacketsFitFrom(payload, packets, k + 1, start + Len(packets[k]))

\* The pass about to be made reads a decimal prefix ending at the colon of
\* position j (0-based) that declares more characters than are left.
DeclaresTooMuch(j) ==
    /\ j \in (dec.i + 1)..(Len(dec.payload) - 1)
    /\ \A k \in (dec.i + 1)..j : dec.payload[k] \in Digits
    /\ dec.payload[j + 1] = ":"
    /\ IntValue(SubSeq(dec.payload, dec.i + 1, j)) > Len(dec.payload) - (j + 1)

\* C24: decode_engineio_payload terminates on every input: every pass of
\* its loop that leads to another pass has moved the read position forward,
\* a declared length beyond the end of the buffer gives the truncated
\* remainder as packet and ends the decoding, and the packets returned are
\* non-overlapping substrings of the input, in input order.
DecodeTerminates ==
    /\ <>(dec.pc # "loop")
    /\ [][dec'.pc = "loop" => dec'.i > dec.i]_vars
    /\ [][\A j \in 0..Len(dec.payload) :
            (dec.pc = "loop" /\ DeclaresTooMuch(j)) =>
                /\ dec'.packets =
                       Append(dec.packets, SubSeq(dec.payload, j + 2, Len(dec.payload)))
                /\ dec'.i >= Len(dec.payload)]_vars
    /\ [](dec.pc = "done" => PacketsFitFrom(dec.payload, dec.packets, 1, 0))

\* Witness for C24: "2:a" declared two characters with one left, and the
\* decoding ended with the packet "a".
DecodeTerminatesWitness ==
    /\ dec.pc = "done"
    /\ dec.payload = <<"2", ":", "a">>
    /\ dec.packets = <<<<"a">>>>
    /\ dec.i = 4

====
